---- MODULE Spec2Model ----
(***************************************************************************)
(* Contact Management System (Week1-tasks/Contact Management.py).          *)
(*                                                                         *)
(* A Python str is modelled as a sequence of one-character strings, so     *)
(* that strip(), lower(), the two validation regular expressions and the   *)
(* JSON string escaping are computed character by character.  The dict     *)
(* self.contacts is an insertion-ordered sequence of <<key, details>>      *)
(* entries (Python dicts keep insertion order, which json.dump and the     *)
(* search loop both observe).                                              *)
(*                                                                         *)
(* The program is single-threaded and blocks only in input().  Each action *)
(* runs it from one input() call, given the line typed there (or a         *)
(* KeyboardInterrupt), up to the next input() call: pc names the call the  *)
(* program is blocked in.  The step that follows a handler's last prompt   *)
(* includes its assignment to self.contacts and its call of save_contacts. *)
(***************************************************************************)
EXTENDS Integers, Sequences, FiniteSets, TLC

VARIABLES
    contacts,   \* self.contacts: the dict, as a sequence of [k, v] entries
    file,       \* contacts.json: [exists, text]
    output,     \* lines printed by the handler that ran last
    pc,         \* the input() call the program is blocked in
    locals,     \* local variables of the running handler
    entered,    \* lines the running handler has read from stdin so far
    ops         \* menu choices made so far

vars == <<contacts, file, output, pc, locals, entered, ops>>

(***************************************************************************)
(* Characters and str methods                                              *)
(***************************************************************************)
\* The letters are those the typed lines of the model use; the patterns
\* a-z and A-Z, and str.lower(), are restricted to them.
Digits == {"0", "1", "2", "3", "4", "5", "6", "7", "8", "9"}

LowerLetters == {"a", "b", "c", "e", "l", "m", "n", "o", "x"}

UpperLetters == {"A", "B", "L"}

Letters == LowerLetters \cup UpperLetters

\* str.strip() with no argument removes leading and trailing whitespace
Whitespace == {" ", "\t", "\n", "\r"}

lower_char(c) ==
    CASE c = "A" -> "a"
      [] c = "B" -> "b"
      [] c = "L" -> "l"
      [] OTHER -> c

lower(s) == [i \in 1..Len(s) |-> lower_char(s[i])]

RECURSIVE lstrip(_)
lstrip(s) ==
    IF s # <<>> /\ s[1] \in Whitespace THEN lstrip(Tail(s)) ELSE s

RECURSIVE rstrip(_)
rstrip(s) ==
    IF s # <<>> /\ s[Len(s)] \in Whitespace
    THEN rstrip(SubSeq(s, 1, Len(s) - 1))
    ELSE s

strip(s) == rstrip(lstrip(s))

\* Python's  a in b  on two str: a occurs in b as a contiguous substring
contains(b, a) ==
    \E i \in 0..(Len(b) - Len(a)) : SubSeq(b, i + 1, i + Len(a)) = a

AllIn(s, class) == \A i \in 1..Len(s) : s[i] \in class

\* re's  $  matches at the end of the string and just before a final newline
BeforeDollar(s) ==
    IF s # <<>> /\ s[Len(s)] = "\n" THEN {s, SubSeq(s, 1, Len(s) - 1)} ELSE {s}

(***************************************************************************)
(* Validation                                                              *)
(***************************************************************************)
EmailLocalClass == Letters \cup Digits \cup {".", "_", "%", "+", "-"}

EmailDomainClass == Letters \cup Digits \cup {".", "-"}

\* ^[a-zA-Z0-9._%+-]+@[a-zA-Z0-9.-]+\.[a-zA-Z]{2,}$
validate_email(email) ==
    \E t \in BeforeDollar(email) :
      \E at \in 2..Len(t) :
        \E dot \in (at + 2)..Len(t) :
          /\ AllIn(SubSeq(t, 1, at - 1), EmailLocalClass)
          /\ t[at] = "@"
          /\ AllIn(SubSeq(t, at + 1, dot - 1), EmailDomainClass)
          /\ t[dot] = "."
          /\ Len(t) - dot >= 2
          /\ AllIn(SubSeq(t, dot + 1, Len(t)), Letters)

PhoneClass == Digits \cup Whitespace \cup {"-", "(", ")"}

PhoneMin == 10

PhoneMax == 15

\* ^\+?[\d\s\-\(\)]{10,15}$
validate_phone(phone) ==
    \E t \in BeforeDollar(phone) :
      LET body == IF t # <<>> /\ t[1] = "+" THEN Tail(t) ELSE t
      IN  /\ Len(body) >= PhoneMin
          /\ Len(body) <= PhoneMax
          /\ AllIn(body, PhoneClass)

(***************************************************************************)
(* dict operations on self.contacts                                        *)
(***************************************************************************)
Keys(d) == {d[i].k : i \in 1..Len(d)}

Has(d, key) == key \in Keys(d)

IndexOf(d, key) == CHOOSE i \in 1..Len(d) : d[i].k = key

Get(d, key) == d[IndexOf(d, key)].v

\* d[key] = value: an existing key keeps its position, a new one goes last
Put(d, key, value) ==
    IF Has(d, key)
    THEN [d EXCEPT ![IndexOf(d, key)] = [k |-> key, v |-> value]]
    ELSE Append(d, [k |-> key, v |-> value])

\* del d[key]
Del(d, key) ==
    LET i == IndexOf(d, key)
    IN  SubSeq(d, 1, i - 1) \o SubSeq(d, i + 1, Len(d))

NA == <<"N", "/", "A">>

(***************************************************************************)
(* json.dump(self.contacts, file, indent=2) and json.load(file).           *)
(* The text is a sequence of tokens; the indentation, which the parser     *)
(* skips, is left out.  A string token carries the characters written      *)
(* between its quotes, escaped as json.dump (ensure_ascii) escapes them.   *)
(***************************************************************************)
LBrace == [t |-> "{", s |-> <<>>]

RBrace == [t |-> "}", s |-> <<>>]

Colon == [t |-> ":", s |-> <<>>]

Comma == [t |-> ",", s |-> <<>>]

\* bug: the backslash is written as it is
escape_char_no_backslash(c) ==
    CASE c = "\"" -> <<"\\", "\"">>
      [] c = "\n" -> <<"\\", "n">>
      [] c = "\r" -> <<"\\", "r">>
      [] c = "\t" -> <<"\\", "t">>
      [] OTHER -> <<c>>

escape_char(c) ==
    CASE c = "\"" -> <<"\\", "\"">>
      [] c = "\\" -> <<"\\", "\\">>
      [] c = "\n" -> <<"\\", "n">>
      [] c = "\r" -> <<"\\", "r">>
      [] c = "\t" -> <<"\\", "t">>
      [] OTHER -> <<c>>

RECURSIVE escape_from(_, _, _)
escape_from(s, i, acc) ==
    IF i > Len(s) THEN acc
    ELSE escape_from(s, i + 1, acc \o escape_char(s[i]))

\* the characters json.dump replaces in a string
Escaped == {"\"", "\\", "\n", "\r", "\t"}

escape(s) ==
    IF \A i \in 1..Len(s) : s[i] \notin Escaped
    THEN s
    ELSE escape_from(s, 1, <<>>)

StrTok(s) == [t |-> "str", s |-> escape(s)]

F_original_name ==
    <<"o", "r", "i", "g", "i", "n", "a", "l", "_", "n", "a", "m", "e">>

F_phone == <<"p", "h", "o", "n", "e">>

F_email == <<"e", "m", "a", "i", "l">>

F_address == <<"a", "d", "d", "r", "e", "s", "s">>

K_original_name == StrTok(F_original_name)

K_phone == StrTok(F_phone)

K_email == StrTok(F_email)

K_address == StrTok(F_address)

encode_details(v) ==
    << LBrace,
       K_original_name, Colon, StrTok(v.original_name), Comma,
       K_phone, Colon, StrTok(v.phone), Comma,
       K_email, Colon, StrTok(v.email), Comma,
       K_address, Colon, StrTok(v.address),
       RBrace >>

RECURSIVE encode_items(_)
encode_items(d) ==
    IF d = <<>> THEN <<>>
    ELSE <<StrTok(d[1].k), Colon>> \o encode_details(d[1].v)
         \o (IF Len(d) > 1 THEN <<Comma>> ELSE <<>>)
         \o encode_items(Tail(d))

dumps(d) == <<LBrace>> \o encode_items(d) \o <<RBrace>>

\* json.decoder.py_scanstring: what a string token's characters decode to
EscapeLetters == {"\"", "\\", "n", "r", "t"}

unescape_char(c) ==
    CASE c = "n" -> "\n"
      [] c = "r" -> "\r"
      [] c = "t" -> "\t"
      [] OTHER -> c

\* the characters from position i on are well-formed string content
RECURSIVE string_ok_from(_, _)
string_ok_from(s, i) ==
    IF i > Len(s) THEN TRUE
    ELSE IF s[i] = "\\"
         THEN i < Len(s) /\ s[i + 1] \in EscapeLetters
              /\ string_ok_from(s, i + 2)
         ELSE s[i] \notin {"\"", "\n", "\r", "\t"}
              /\ string_ok_from(s, i + 1)

string_ok(s) ==
    \/ \A i \in 1..Len(s) : s[i] \notin Escaped
    \/ string_ok_from(s, 1)

RECURSIVE unescape_from(_, _, _)
unescape_from(s, i, acc) ==
    IF i > Len(s) THEN acc
    ELSE IF s[i] = "\\"
         THEN unescape_from(s, i + 2, Append(acc, unescape_char(s[i + 1])))
         ELSE unescape_from(s, i + 1, Append(acc, s[i]))

unescape(s) ==
    IF \A i \in 1..Len(s) : s[i] # "\\"
    THEN s
    ELSE unescape_from(s, 1, <<>>)

IsStr(toks, i) == i <= Len(toks) /\ toks[i].t = "str" /\ string_ok(toks[i].s)

IsTok(toks, i, t) == i <= Len(toks) /\ toks[i].t = t

ParseError == [ok |-> FALSE, d |-> <<>>, next |-> 0]

\* JSONObject: the members of an object whose values are strings (inner)
\* or objects of strings; a repeated key keeps the last value
RECURSIVE parse_members(_, _, _, _)
RECURSIVE parse_object(_, _, _)
parse_members(toks, i, inner, acc) ==
    IF ~(IsStr(toks, i) /\ IsTok(toks, i + 1, ":")) THEN ParseError
    ELSE
      LET key == unescape(toks[i].s)
          val == IF inner
                 THEN IF IsStr(toks, i + 2)
                      THEN [ok |-> TRUE, d |-> unescape(toks[i + 2].s),
                            next |-> i + 3]
                      ELSE ParseError
                 ELSE parse_object(toks, i + 2, TRUE)
      IN  IF ~val.ok THEN ParseError
          ELSE IF IsTok(toks, val.next, ",")
               THEN parse_members(toks, val.next + 1, inner,
                                  Put(acc, key, val.d))
               ELSE IF IsTok(toks, val.next, "}")
                    THEN [ok |-> TRUE, d |-> Put(acc, key, val.d),
                          next |-> val.next + 1]
                    ELSE ParseError

parse_object(toks, i, inner) ==
    IF ~IsTok(toks, i, "{") THEN ParseError
    ELSE IF IsTok(toks, i + 1, "}")
         THEN [ok |-> TRUE, d |-> <<>>, next |-> i + 2]
         ELSE parse_members(toks, i + 1, inner, <<>>)

\* the details dict read back, as the record the model keeps details in
details_of(inner) ==
    [original_name |-> Get(inner, F_original_name),
     phone |-> Get(inner, F_phone),
     email |-> Get(inner, F_email),
     address |-> Get(inner, F_address)]

loads(text) ==
    LET r == parse_object(text, 1, FALSE)
    IN  IF r.ok /\ r.next = Len(text) + 1
        THEN [ok |-> TRUE,
              d |-> [i \in 1..Len(r.d) |->
                       [k |-> r.d[i].k, v |-> details_of(r.d[i].v)]]]
        ELSE [ok |-> FALSE, d |-> <<>>]

(***************************************************************************)
(* print                                                                   *)
(***************************************************************************)
Line(msg, name) ==
    [msg |-> msg, name |-> name, phone |-> <<>>, email |-> <<>>,
     address |-> <<>>, n |-> 0]

Found(n) ==
    [msg |-> "Found {n} contact(s):", name |-> <<>>, phone |-> <<>>,
     email |-> <<>>, address |-> <<>>, n |-> n]

display_contact(details) ==
    [msg |-> "--- {original_name} ---", name |-> details.original_name,
     phone |-> details.phone, email |-> details.email,
     address |-> details.address, n |-> 0]

(***************************************************************************)
(* Persistence                                                             *)
(***************************************************************************)
NoFile == [exists |-> FALSE, text |-> <<>>]

\* io: "ok", or "ioerror" when open() or read() raises IOError
load_contacts(f, io) ==
    IF ~f.exists THEN [contacts |-> <<>>, out |-> <<>>]
    ELSE LET parsed == loads(f.text)
         IN  IF io = "ok" /\ parsed.ok
             THEN [contacts |-> parsed.d, out |-> <<>>]
             ELSE [contacts |-> <<>>,
                   out |-> <<Line("Error loading contacts: {e}", <<>>)>>]

\* bug: reports success without having written the mapping
save_contacts_not_written(c, f, io) ==
    IF io = "ok"
    THEN [ok |-> TRUE, file |-> f, out |-> <<>>]
    ELSE [ok |-> FALSE, file |-> f,
          out |-> <<Line("Error saving contacts: {e}", <<>>)>>]

\* io: "ok"; "open" when open(filename, 'w') raises IOError, the file as it
\* was; "write" when json.dump or the close raises it after open() has
\* truncated the file, which is left cut short (here: empty)
save_contacts(c, f, io) ==
    CASE io = "ok" ->
           [ok |-> TRUE, file |-> [exists |-> TRUE, text |-> dumps(c)],
            out |-> <<>>]
      [] io = "open" ->
           [ok |-> FALSE, file |-> f,
            out |-> <<Line("Error saving contacts: {e}", <<>>)>>]
      [] OTHER ->
           [ok |-> FALSE, file |-> [exists |-> TRUE, text |-> <<>>],
            out |-> <<Line("Error saving contacts: {e}", <<>>)>>]

(***************************************************************************)
(* Bounds and the lines typed at the prompts                               *)
(***************************************************************************)
MaxOps == 2

NameInputs ==
    { <<" ">>, <<" ", "A", "l", " ">>, <<"a", "l">>, <<"a">> }

PhoneInputs ==
    { <<>>,
      <<"1", "2", "3">>,
      <<" ", "5", "5", "5", "-", "1", "2", "3", "4", "5", "6">> }

EmailInputs ==
    { <<>>, <<"x", "@", "@">>, <<"a", "@", "b", ".", "c", "o">> }

AddressInputs == { <<>>, <<"\"", "\\", "n">> }

ConfirmInputs == { <<"y">>, <<" ", "Y">>, <<"n">>, <<>> }

SearchInputs == { <<" ">>, <<"A">>, <<"L", " ">> }

ChoiceInputs ==
    { <<"1">>, <<" ", "2">>, <<"3">>, <<"4">>, <<"5">>, <<"6">>, <<"9">> }

SaveOutcomes == {"ok", "open", "write"}

LoadOutcomes == {"ok", "ioerror"}

(***************************************************************************)
(* The program                                                             *)
(***************************************************************************)
\* bug: the key keeps the case of the name
normalize_name_as_typed(name) == name

\* normalized_name = name.lower()
normalize_name(name) == lower(name)

\* search_term = input(...).strip().lower()
search_term_of(line) == lower(strip(line))

\* code point order of the characters, for sorted()
CodeOrder ==
    << "\t", "\n", "\r", " ", "\"", "%", "(", ")", "+", "-", ".", "/",
       "0", "1", "2", "3", "4", "5", "6", "7", "8", "9", "@",
       "A", "B", "L", "N", "\\", "_",
       "a", "b", "c", "e", "l", "m", "n", "o", "x" >>

ord(c) == CHOOSE i \in 1..Len(CodeOrder) : CodeOrder[i] = c

\* a < b on two str
RECURSIVE str_less(_, _)
str_less(a, b) ==
    IF b = <<>> THEN FALSE
    ELSE IF a = <<>> THEN TRUE
    ELSE IF a[1] = b[1] THEN str_less(Tail(a), Tail(b))
    ELSE ord(a[1]) < ord(b[1])

\* sorted(values, key=lambda x: x['original_name'].lower()), a stable sort
RECURSIVE insert_sorted(_, _)
insert_sorted(sorted, x) ==
    IF sorted = <<>> THEN <<x>>
    ELSE IF str_less(lower(x.original_name), lower(sorted[1].original_name))
         THEN <<x>> \o sorted
         ELSE <<sorted[1]>> \o insert_sorted(Tail(sorted), x)

RECURSIVE sorted_by_name(_)
sorted_by_name(values) ==
    IF values = <<>> THEN <<>>
    ELSE insert_sorted(sorted_by_name(SubSeq(values, 1, Len(values) - 1)),
                       values[Len(values)])

list_all_contacts(d) ==
    IF d = <<>> THEN <<Line("No contacts found!", <<>>)>>
    ELSE <<[Line("All Contacts ({n}):", <<>>) EXCEPT !.n = Len(d)]>> \o
         [i \in 1..Len(d) |->
            display_contact(sorted_by_name([j \in 1..Len(d) |-> d[j].v])[i])]

NoLocals ==
    [name |-> <<>>, normalized_name |-> <<>>, phone |-> <<>>, email |-> <<>>]

Cancelled == Line("Operation cancelled.", <<>>)

\* the handler returns to run()'s loop, which prompts for the next choice
Return(out) ==
    /\ output' = out
    /\ pc' = "menu"
    /\ locals' = NoLocals
    /\ entered' = <<>>

\* the handler goes on to its next input() call
Prompt(next, line, loc, out) ==
    /\ pc' = next
    /\ entered' = Append(entered, line)
    /\ locals' = loc
    /\ output' = out
    /\ UNCHANGED <<contacts, file, ops>>

\* __init__ of a new process, once the previous one has exited
ContactManager_init(io) ==
    /\ pc = "exited"
    /\ LET loaded == load_contacts(file, io)
       IN  /\ contacts' = loaded.contacts
           /\ output' = loaded.out
    /\ pc' = "menu"
    /\ UNCHANGED <<file, locals, entered, ops>>

\* run(): one pass of the loop up to the handler's first prompt
run(line) ==
    /\ pc = "menu"
    /\ ops < MaxOps
    /\ ops' = ops + 1
    /\ LET choice == strip(line)
       IN  /\ pc' = CASE choice = <<"1">> -> "add_name"
                      [] choice = <<"2">> -> "search_term"
                      [] choice = <<"3">> -> "update_name"
                      [] choice = <<"4">> -> "delete_name"
                      [] choice = <<"5">> -> "menu"
                      [] choice = <<"6">> -> "exited"
                      [] OTHER -> "menu"
           /\ output' = CASE choice \in {<<"1">>, <<"2">>, <<"3">>, <<"4">>}
                               -> <<>>
                          [] choice = <<"5">> -> list_all_contacts(contacts)
                          [] choice = <<"6">> -> <<Line("Goodbye!", <<>>)>>
                          [] OTHER ->
                               <<Line("Invalid choice! Please enter 1-6.",
                                      <<>>)>>
    /\ UNCHANGED <<contacts, file, locals, entered>>

\* KeyboardInterrupt at the menu prompt ends the loop
run_interrupt ==
    /\ pc = "menu"
    /\ pc' = "exited"
    /\ output' = <<Line("Goodbye!", <<>>)>>
    /\ UNCHANGED <<contacts, file, locals, entered, ops>>

HandlerPrompts ==
    { "add_name", "add_phone", "add_email", "add_address", "search_term",
      "update_name", "update_phone", "update_email", "update_address",
      "delete_name", "delete_confirm" }

\* bug: the handler does not catch the interrupt, which ends run()'s loop
KeyboardInterrupt_uncaught ==
    /\ pc \in HandlerPrompts
    /\ output' = <<Line("Goodbye!", <<>>)>>
    /\ pc' = "exited"
    /\ locals' = NoLocals
    /\ entered' = <<>>
    /\ UNCHANGED <<contacts, file, ops>>

\* KeyboardInterrupt at a prompt of a handler: its except clause
KeyboardInterrupt ==
    /\ pc \in HandlerPrompts
    /\ Return(<<Cancelled>>)
    /\ UNCHANGED <<contacts, file, ops>>

\* bug: the duplicate check looks the name up as typed
add_contact_name_case_sensitive(line) ==
    /\ pc = "add_name"
    /\ LET name == strip(line)
           normalized_name == normalize_name(name)
       IN  IF name = <<>>
           THEN Return(<<Line("Name cannot be empty!", <<>>)>>)
                /\ UNCHANGED <<contacts, file, ops>>
           ELSE IF Has(contacts, name)
                THEN Return(<<Line("Contact already exists!", <<>>)>>)
                     /\ UNCHANGED <<contacts, file, ops>>
                ELSE Prompt("add_phone", line,
                            [locals EXCEPT !.name = name,
                               !.normalized_name = normalized_name],
                            output)

add_contact_name(line) ==
    /\ pc = "add_name"
    /\ LET name == strip(line)
           normalized_name == normalize_name(name)
       IN  IF name = <<>>
           THEN Return(<<Line("Name cannot be empty!", <<>>)>>)
                /\ UNCHANGED <<contacts, file, ops>>
           ELSE IF Has(contacts, normalized_name)
                THEN Return(<<Line("Contact already exists!", <<>>)>>)
                     /\ UNCHANGED <<contacts, file, ops>>
                ELSE Prompt("add_phone", line,
                            [locals EXCEPT !.name = name,
                               !.normalized_name = normalized_name],
                            output)

\* bug: an invalid phone is dropped and the add goes on
add_contact_phone_lenient(line) ==
    /\ pc = "add_phone"
    /\ LET phone == strip(line)
       IN  Prompt("add_email", line,
                  [locals EXCEPT
                     !.phone = IF phone = <<>> \/ ~validate_phone(phone)
                               THEN NA ELSE phone],
                  output)

add_contact_phone(line) ==
    /\ pc = "add_phone"
    /\ LET phone == strip(line)
       IN  IF phone # <<>> /\ ~validate_phone(phone)
           THEN Return(<<Line("Invalid phone number format!", <<>>)>>)
                /\ UNCHANGED <<contacts, file, ops>>
           ELSE Prompt("add_email", line,
                       [locals EXCEPT
                          !.phone = IF phone = <<>> THEN NA ELSE phone],
                       output)

add_contact_email(line) ==
    /\ pc = "add_email"
    /\ LET email == strip(line)
       IN  IF email # <<>> /\ ~validate_email(email)
           THEN Return(<<Line("Invalid email format!", <<>>)>>)
                /\ UNCHANGED <<contacts, file, ops>>
           ELSE Prompt("add_address", line,
                       [locals EXCEPT
                          !.email = IF email = <<>> THEN NA ELSE email],
                       output)

add_contact_address(line, io) ==
    /\ pc = "add_address"
    /\ LET address == IF strip(line) = <<>> THEN NA ELSE strip(line)
           new == Put(contacts, locals.normalized_name,
                      [original_name |-> locals.name,
                       phone |-> locals.phone,
                       email |-> locals.email,
                       address |-> address])
           saved == save_contacts(new, file, io)
       IN  /\ contacts' = new
           /\ file' = saved.file
           /\ Return(saved.out \o
                     (IF saved.ok
                      THEN <<Line("Contact '{name}' added successfully!",
                                  locals.name)>>
                      ELSE <<Line("Failed to save contact!", <<>>)>>))
    /\ UNCHANGED ops

\* bug: the key is compared with the term for equality
search_result_exact(d, search_term) ==
    LET Match(e) == e.k = search_term
        hits == SelectSeq(d, Match)
    IN  [i \in 1..Len(hits) |-> hits[i].v]

\* the loop of search_contact: the details whose key contains the term
search_result(d, search_term) ==
    LET Match(e) == contains(e.k, search_term)
        hits == SelectSeq(d, Match)
    IN  [i \in 1..Len(hits) |-> hits[i].v]

search_contact(line) ==
    /\ pc = "search_term"
    /\ LET search_term == search_term_of(line)
           found_contacts == search_result(contacts, search_term)
       IN  IF search_term = <<>>
           THEN Return(<<Line("Search term cannot be empty!", <<>>)>>)
           ELSE IF found_contacts # <<>>
                THEN Return(<<Found(Len(found_contacts))>> \o
                            [i \in 1..Len(found_contacts) |->
                               display_contact(found_contacts[i])])
                ELSE Return(<<Line("No contacts found!", <<>>)>>)
    /\ UNCHANGED <<contacts, file, ops>>

update_contact_name(line) ==
    /\ pc = "update_name"
    /\ LET name == strip(line)
           normalized_name == normalize_name(name)
       IN  IF ~Has(contacts, normalized_name)
           THEN Return(<<Line("Contact not found!", <<>>)>>)
                /\ UNCHANGED <<contacts, file, ops>>
           ELSE LET current_details == Get(contacts, normalized_name)
                IN  Prompt("update_phone", line,
                           [locals EXCEPT !.name = name,
                              !.normalized_name = normalized_name],
                           << Line("Current details for '{original_name}':",
                                   current_details.original_name),
                              display_contact(current_details),
                              Line("Enter new details", <<>>) >>)

\* bug: an invalid phone ends the update, as it ends an add
update_contact_phone_strict(line) ==
    /\ pc = "update_phone"
    /\ LET new_phone == strip(line)
           current_details == Get(contacts, locals.normalized_name)
       IN  IF new_phone # <<>> /\ ~validate_phone(new_phone)
           THEN Return(<<Line("Invalid phone number format!", <<>>)>>)
                /\ UNCHANGED <<contacts, file, ops>>
           ELSE Prompt("update_email", line,
                       [locals EXCEPT
                          !.phone = IF new_phone = <<>>
                                    THEN current_details.phone
                                    ELSE new_phone],
                       output)

update_contact_phone(line) ==
    /\ pc = "update_phone"
    /\ LET new_phone == strip(line)
           current_details == Get(contacts, locals.normalized_name)
       IN  IF new_phone # <<>> /\ ~validate_phone(new_phone)
           THEN Prompt("update_email", line,
                       [locals EXCEPT !.phone = current_details.phone],
                       Append(output,
                              Line("Invalid phone number format! Keeping current value.",
                                   <<>>)))
           ELSE Prompt("update_email", line,
                       [locals EXCEPT
                          !.phone = IF new_phone = <<>>
                                    THEN current_details.phone
                                    ELSE new_phone],
                       output)

\* bug: the invalid email is reported but not replaced by the current one
update_contact_email_unchecked(line) ==
    /\ pc = "update_email"
    /\ LET new_email == strip(line)
           current_details == Get(contacts, locals.normalized_name)
       IN  IF new_email # <<>> /\ ~validate_email(new_email)
           THEN Prompt("update_address", line,
                       [locals EXCEPT !.email = new_email],
                       Append(output,
                              Line("Invalid email format! Keeping current value.",
                                   <<>>)))
           ELSE Prompt("update_address", line,
                       [locals EXCEPT
                          !.email = IF new_email = <<>>
                                    THEN current_details.email
                                    ELSE new_email],
                       output)

update_contact_email(line) ==
    /\ pc = "update_email"
    /\ LET new_email == strip(line)
           current_details == Get(contacts, locals.normalized_name)
       IN  IF new_email # <<>> /\ ~validate_email(new_email)
           THEN Prompt("update_address", line,
                       [locals EXCEPT !.email = current_details.email],
                       Append(output,
                              Line("Invalid email format! Keeping current value.",
                                   <<>>)))
           ELSE Prompt("update_address", line,
                       [locals EXCEPT
                          !.email = IF new_email = <<>>
                                    THEN current_details.email
                                    ELSE new_email],
                       output)

update_contact_address(line, io) ==
    /\ pc = "update_address"
    /\ LET current_details == Get(contacts, locals.normalized_name)
           new_address == IF strip(line) = <<>>
                          THEN current_details.address
                          ELSE strip(line)
           new == Put(contacts, locals.normalized_name,
                      [original_name |-> current_details.original_name,
                       phone |-> locals.phone,
                       email |-> locals.email,
                       address |-> new_address])
           saved == save_contacts(new, file, io)
       IN  /\ contacts' = new
           /\ file' = saved.file
           /\ Return(output \o saved.out \o
                     (IF saved.ok
                      THEN <<Line("Contact '{original_name}' updated successfully!",
                                  current_details.original_name)>>
                      ELSE <<Line("Failed to save updated contact!", <<>>)>>))
    /\ UNCHANGED ops

delete_contact_name(line) ==
    /\ pc = "delete_name"
    /\ LET name == strip(line)
           normalized_name == normalize_name(name)
       IN  IF ~Has(contacts, normalized_name)
           THEN Return(<<Line("Contact not found!", <<>>)>>)
                /\ UNCHANGED <<contacts, file, ops>>
           ELSE Prompt("delete_confirm", line,
                       [locals EXCEPT !.name = name,
                          !.normalized_name = normalized_name],
                       output)

\* bug: anything but n confirms
delete_contact_confirm_default_yes(line, io) ==
    /\ pc = "delete_confirm"
    /\ LET confirm == lower(strip(line))
           new == Del(contacts, locals.normalized_name)
           saved == save_contacts(new, file, io)
       IN  IF confirm # <<"n">>
           THEN /\ contacts' = new
                /\ file' = saved.file
                /\ Return(saved.out \o
                          (IF saved.ok
                           THEN <<Line("Contact '{name}' deleted successfully!",
                                       locals.name)>>
                           ELSE <<Line("Failed to save changes!", <<>>)>>))
           ELSE /\ Return(<<Line("Deletion cancelled.", <<>>)>>)
                /\ UNCHANGED <<contacts, file>>
    /\ UNCHANGED ops

delete_contact_confirm(line, io) ==
    /\ pc = "delete_confirm"
    /\ LET confirm == lower(strip(line))
           new == Del(contacts, locals.normalized_name)
           saved == save_contacts(new, file, io)
       IN  IF confirm = <<"y">>
           THEN /\ contacts' = new
                /\ file' = saved.file
                /\ Return(saved.out \o
                          (IF saved.ok
                           THEN <<Line("Contact '{name}' deleted successfully!",
                                       locals.name)>>
                           ELSE <<Line("Failed to save changes!", <<>>)>>))
           ELSE /\ Return(<<Line("Deletion cancelled.", <<>>)>>)
                /\ UNCHANGED <<contacts, file>>
    /\ UNCHANGED ops

(***************************************************************************)
(* Specification                                                           *)
(***************************************************************************)
\* a first run of the program in a directory without contacts.json
Init ==
    /\ file = NoFile
    /\ contacts = load_contacts(NoFile, "ok").contacts
    /\ output = <<>>
    /\ pc = "menu"
    /\ locals = NoLocals
    /\ entered = <<>>
    /\ ops = 0

Next ==
    \/ \E io \in LoadOutcomes : ContactManager_init(io)
    \/ \E line \in ChoiceInputs : run(line)
    \/ run_interrupt
    \/ KeyboardInterrupt
    \/ \E line \in NameInputs : add_contact_name(line)
    \/ \E line \in PhoneInputs : add_contact_phone(line)
    \/ \E line \in EmailInputs : add_contact_email(line)
    \/ \E line \in AddressInputs, io \in SaveOutcomes :
          add_contact_address(line, io)
    \/ \E line \in SearchInputs : search_contact(line)
    \/ \E line \in NameInputs : update_contact_name(line)
    \/ \E line \in PhoneInputs : update_contact_phone(line)
    \/ \E line \in EmailInputs : update_contact_email(line)
    \/ \E line \in AddressInputs, io \in SaveOutcomes :
          update_contact_address(line, io)
    \/ \E line \in NameInputs : delete_contact_name(line)
    \/ \E line \in ConfirmInputs, io \in SaveOutcomes :
          delete_contact_confirm(line, io)

Spec == Init /\ [][Next]_vars

(***************************************************************************)
(* Properties                                                              *)
(***************************************************************************)
SavedText(d) == [exists |-> TRUE, text |-> dumps(d)]

ErrorSaving == Line("Error saving contacts: {e}", <<>>)

Printed(msg) == \E i \in 1..Len(output) : output[i].msg = msg

\* C1: every key of the contact mapping is the lower-cased original_name of
\* the contact stored under it, and no two stored contacts have names that
\* are equal ignoring case.
C1_KeysAreLoweredNames ==
    /\ \A i \in 1..Len(contacts) :
          contacts[i].k = lower(contacts[i].v.original_name)
    /\ \A i, j \in 1..Len(contacts) :
          i # j => lower(contacts[i].v.original_name)
                   # lower(contacts[j].v.original_name)

\* two contacts, one entered with a capital letter, the last save failed
C1_Witness ==
    /\ Len(contacts) = 2
    /\ \E i \in 1..2 : contacts[i].v.original_name # contacts[i].k
    /\ file # SavedText(contacts)
    /\ Printed("Failed to save contact!")

\* C7: in every reachable store state, saving the mapping and loading the
\* file in a new ContactManager gives the same mapping (same keys in the
\* same order, same four fields), and saving the loaded mapping writes the
\* same text again.
C7_RoundTrip ==
    LET written == save_contacts(contacts, file, "ok").file
        loaded == load_contacts(written, "ok")
    IN  /\ loaded.out = <<>>
        /\ loaded.contacts = contacts
        /\ save_contacts(loaded.contacts, written, "ok").file = written

\* a new process has just loaded a saved contact whose address needs
\* escaping in the file
C7_Witness ==
    /\ pc = "menu" /\ output = <<>> /\ ops > 0
    /\ contacts # <<>>
    /\ file = SavedText(contacts)
    /\ \E i \in 1..Len(contacts) :
          escape(contacts[i].v.address) # contacts[i].v.address

\* C9: every stored phone is "N/A" or accepted by validate_phone, and every
\* stored email is "N/A" or accepted by validate_email.
C9_StoredFieldsValid ==
    \A i \in 1..Len(contacts) :
       /\ contacts[i].v.phone = NA \/ validate_phone(contacts[i].v.phone)
       /\ contacts[i].v.email = NA \/ validate_email(contacts[i].v.email)

\* an update that was given an invalid phone and an invalid email has been
\* applied to a contact that has a phone and an email
C9_Witness ==
    /\ Printed("Invalid phone number format! Keeping current value.")
    /\ Printed("Invalid email format! Keeping current value.")
    /\ Printed("Contact '{original_name}' updated successfully!")
    /\ \E i \in 1..Len(contacts) :
          contacts[i].v.phone # NA /\ contacts[i].v.email # NA

\* the step of add_contact that stores the record
AddStores ==
    \E line \in AddressInputs, io \in SaveOutcomes :
       add_contact_address(line, io)

\* what search_contact finds, right after the step, for the name just added
SearchAfterAdd == search_result(contacts', search_term_of(locals.name))

\* C2 (as claimed): after a successful add, a search for the name returns
\* exactly one match, the contact just added, whatever was stored before.
C2_Original ==
    [][(AddStores /\ file' = SavedText(contacts'))
         => /\ Len(SearchAfterAdd) = 1
            /\ SearchAfterAdd[1].original_name = locals.name]_vars

\* C2 (amended): after an add that stores the contact, a search for the name
\* returns the contact just added, once and as the last match, after every
\* earlier contact whose key contains the lower-cased name; it is the only
\* match exactly when no earlier key contains the lower-cased name.
C2_AddThenSearch ==
    [][AddStores
         => LET r == SearchAfterAdd
                earlier == {i \in 1..Len(contacts) :
                              contains(contacts[i].k, lower(locals.name))}
            IN  /\ r # <<>>
                /\ r[Len(r)] = contacts'[Len(contacts')].v
                /\ r[Len(r)].original_name = locals.name
                /\ Len(r) = 1 + Cardinality(earlier)
                /\ \A i \in 1..(Len(r) - 1) :
                      r[i].original_name # locals.name]_vars

\* "a" has been added to a store that holds "Al": a search for "a" finds both
C2_Witness ==
    /\ Printed("Contact '{name}' added successfully!")
    /\ Len(contacts) = 2
    /\ contacts[2].v.original_name = <<"a">>
    /\ Len(search_result(contacts, search_term_of(<<"a">>))) = 2

DiffersOnlyByCase(a, b) == a # b /\ lower(a) = lower(b)

\* C3: an add whose name differs only by letter case from the name of a
\* stored contact prints "Contact already exists!" and changes neither the
\* mapping nor the file.
C3_CaseDuplicateRejected ==
    [][\A line \in NameInputs :
          (/\ add_contact_name(line)
           /\ \E i \in 1..Len(contacts) :
                 DiffersOnlyByCase(strip(line), contacts[i].v.original_name))
          => /\ output' = <<Line("Contact already exists!", <<>>)>>
             /\ pc' = "menu"
             /\ UNCHANGED <<contacts, file>>]_vars

\* the name prompt of add, with a stored contact whose name differs only by
\* case from a name that is then rejected as a duplicate
C3_Witness ==
    /\ pc = "add_name"
    /\ \E line \in NameInputs :
          /\ \E i \in 1..Len(contacts) :
                DiffersOnlyByCase(strip(line), contacts[i].v.original_name)
          /\ ENABLED (/\ add_contact_name(line)
                      /\ output' = <<Line("Contact already exists!", <<>>)>>
                      /\ UNCHANGED <<contacts, file>>)

\* the value update keeps for a field: the trimmed input when it is
\* non-empty and valid, the stored value otherwise
Kept(input, valid, stored) ==
    IF strip(input) # <<>> /\ valid THEN strip(input) ELSE stored

\* C4: update of an existing contact is never refused for what is typed at
\* the field prompts.  Phone and email end as the (trimmed) input when it is
\* non-empty and valid and as the stored value otherwise, the address as
\* the (trimmed) input unless it is empty; original_name, the keys and all
\* other contacts stay as they were, and the mapping is saved.
C4_UpdateSoftValidation ==
    [][/\ (pc = "update_phone" /\ output' # <<Cancelled>>)
            => pc' = "update_email"
       /\ (pc = "update_email" /\ output' # <<Cancelled>>)
            => pc' = "update_address"
       /\ \A line \in AddressInputs, io \in SaveOutcomes :
             update_contact_address(line, io)
             => LET key == lower(strip(entered[1]))
                    i == IndexOf(contacts, key)
                    old == contacts[i].v
                    new == contacts'[i].v
                IN  /\ Has(contacts, key)
                    /\ new.phone = Kept(entered[2],
                                        validate_phone(strip(entered[2])),
                                        old.phone)
                    /\ new.email = Kept(entered[3],
                                        validate_email(strip(entered[3])),
                                        old.email)
                    /\ new.address = Kept(line, TRUE, old.address)
                    /\ new.original_name = old.original_name
                    /\ Len(contacts') = Len(contacts)
                    /\ \A j \in 1..Len(contacts) :
                          /\ contacts'[j].k = contacts[j].k
                          /\ j # i => contacts'[j] = contacts[j]
                    /\ (strip(entered[2]) = <<>> /\ strip(entered[3]) = <<>>
                        /\ strip(line) = <<>>) => contacts' = contacts
                    /\ io = "ok" => file' = SavedText(contacts')
                    /\ pc' = "menu"]_vars

\* an update given an invalid phone and a valid email has been applied and
\* saved: the phone is still "N/A", the email is the new one
C4_Witness ==
    /\ Printed("Invalid phone number format! Keeping current value.")
    /\ ~Printed("Invalid email format! Keeping current value.")
    /\ Printed("Contact '{original_name}' updated successfully!")
    /\ pc = "menu"
    /\ file = SavedText(contacts)
    /\ \E i \in 1..Len(contacts) :
          contacts[i].v.phone = NA /\ contacts[i].v.email # NA

Confirmed(line) == lower(strip(line)) = <<"y">>

\* C5: a delete that is not confirmed prints "Deletion cancelled." and
\* changes neither the mapping nor the file; while the program runs, a key
\* leaves the mapping only in the confirm step of a delete that named it
\* and was answered y.
C5_DeleteNeedsConfirmation ==
    [][/\ \A line \in ConfirmInputs, io \in SaveOutcomes :
             (delete_contact_confirm(line, io) /\ ~Confirmed(line))
             => /\ output' = <<Line("Deletion cancelled.", <<>>)>>
                /\ pc' = "menu"
                /\ UNCHANGED <<contacts, file>>
       /\ (pc # "exited" /\ Keys(contacts) \ Keys(contacts') # {})
             => /\ pc = "delete_confirm"
                /\ Keys(contacts) \ Keys(contacts')
                     = {lower(strip(entered[1]))}
                /\ \E line \in ConfirmInputs, io \in SaveOutcomes :
                      delete_contact_confirm(line, io) /\ Confirmed(line)]_vars

\* a delete of a stored contact has been declined
C5_Witness ==
    /\ output = <<Line("Deletion cancelled.", <<>>)>>
    /\ pc = "menu"
    /\ contacts # <<>>
    /\ file = SavedText(contacts)

SavePrompts == {"add_address", "update_address", "delete_confirm"}

\* the step ran save_contacts and it returned False
SaveFailed ==
    /\ pc \in SavePrompts
    /\ \E i \in 1..Len(output') : output'[i] = ErrorSaving

\* the step ran save_contacts and it returned True
SaveSucceeded ==
    /\ pc \in SavePrompts
    /\ \E i \in 1..Len(output') :
          output'[i].msg \in
            { "Contact '{name}' added successfully!",
              "Contact '{original_name}' updated successfully!",
              "Contact '{name}' deleted successfully!" }

\* the step's change to the mapping is in place after the step
MutationRetained ==
    CASE pc = "add_address" ->
           /\ Len(contacts') = Len(contacts) + 1
           /\ contacts'[Len(contacts')].k = lower(locals.name)
           /\ contacts'[Len(contacts')].v.original_name = locals.name
           /\ contacts'[Len(contacts')].v.phone = locals.phone
           /\ contacts'[Len(contacts')].v.email = locals.email
      [] pc = "update_address" ->
           /\ Keys(contacts') = Keys(contacts)
           /\ Get(contacts', locals.normalized_name).phone = locals.phone
           /\ Get(contacts', locals.normalized_name).email = locals.email
      [] OTHER ->
           /\ Keys(contacts') = Keys(contacts) \ {locals.normalized_name}
           /\ Len(contacts') = Len(contacts) - 1

Truncated == [exists |-> TRUE, text |-> <<>>]

\* C6 (as claimed): when the save of an add, update or confirmed delete
\* fails, the change stays in memory, the file keeps its previous content,
\* and so the file differs from the mapping in memory.
C6_Original ==
    [][SaveFailed
         => /\ MutationRetained
            /\ file' = file
            /\ file' # SavedText(contacts')]_vars

\* C6 (amended): when the save fails, the change stays in memory and the
\* file either keeps its previous content or is left cut short; when the
\* save succeeds, the file holds the whole mapping, earlier unsaved changes
\* included.  The mapping changes only in a step that tries to save, and
\* while the program runs the file keeps matching the mapping through every
\* step but a failed save.
C6_PersistFailure ==
    [][/\ SaveFailed
            => MutationRetained /\ file' \in {file, Truncated}
       /\ SaveSucceeded
            => MutationRetained /\ file' = SavedText(contacts')
       /\ (pc # "exited" /\ contacts' # contacts)
            => SaveFailed \/ SaveSucceeded
       /\ (pc # "exited" /\ file = SavedText(contacts) /\ ~SaveFailed)
            => file' = SavedText(contacts')]_vars

\* the save of a second contact failed at open(): both contacts are in
\* memory, the file still holds the first alone
C6_Witness ==
    /\ Printed("Failed to save contact!")
    /\ Len(contacts) = 2
    /\ file = SavedText(<<contacts[1]>>)

Rejected(msg) ==
    /\ output' = <<Line(msg, <<>>)>>
    /\ pc' = "menu"
    /\ UNCHANGED <<contacts, file>>

Accepted(next) ==
    /\ pc' = next
    /\ UNCHANGED <<contacts, file>>

\* C8: add reports the first of EmptyName, DuplicateContact, InvalidPhone,
\* InvalidEmail that applies.  An invalid phone ends the add before the
\* email is asked for; every rejected add leaves the mapping and the file
\* as they were, and a record is created only after all checks have passed.
C8_AddCheckOrder ==
    [][/\ \A line \in NameInputs :
             add_contact_name(line)
             => IF strip(line) = <<>>
                THEN Rejected("Name cannot be empty!")
                ELSE IF \E i \in 1..Len(contacts) :
                           lower(contacts[i].v.original_name)
                             = lower(strip(line))
                     THEN Rejected("Contact already exists!")
                     ELSE Accepted("add_phone")
       /\ \A line \in PhoneInputs :
             add_contact_phone(line)
             => IF strip(line) # <<>> /\ ~validate_phone(strip(line))
                THEN Rejected("Invalid phone number format!")
                ELSE Accepted("add_email")
       /\ \A line \in EmailInputs :
             add_contact_email(line)
             => IF strip(line) # <<>> /\ ~validate_email(strip(line))
                THEN Rejected("Invalid email format!")
                ELSE Accepted("add_address")
       /\ (pc # "exited" /\ Len(contacts') > Len(contacts))
             => pc = "add_address"]_vars

\* an add to a store that holds a saved contact has been rejected for its
\* phone, before any email was asked for
C8_Witness ==
    /\ output = <<Line("Invalid phone number format!", <<>>)>>
    /\ pc = "menu"
    /\ Len(contacts) = 1
    /\ file = SavedText(contacts)

OperationPrompts == HandlerPrompts \ {"search_term"}

\* C10: a KeyboardInterrupt at a prompt of add, update or delete returns to
\* the menu with the mapping and the file unchanged; no step taken at such a
\* prompt ends the shell, and no step that reaches such a prompt has changed
\* the mapping or the file, so they are as they were when the operation
\* started.
C10_InterruptLeavesStore ==
    [][/\ (pc \in OperationPrompts /\ KeyboardInterrupt)
            => /\ pc' = "menu"
               /\ output' = <<Cancelled>>
               /\ UNCHANGED <<contacts, file>>
       /\ pc \in OperationPrompts => pc' \in OperationPrompts \cup {"menu"}
       /\ pc' \in OperationPrompts => UNCHANGED <<contacts, file>>]_vars

\* the last prompt of an update that has a new phone pending, where an
\* interrupt leaves the stored phone in place
C10_Witness ==
    /\ pc = "update_address"
    /\ locals.phone # Get(contacts, locals.normalized_name).phone
    /\ ENABLED (KeyboardInterrupt /\ pc' = "menu"
                /\ UNCHANGED <<contacts, file>>)

====
